---- MODULE Spec2Model ----
(***************************************************************************)
(* Model of the TIM toolkit's classification and validation pipeline:      *)
(*   diagnostics.py  Status, Diagnostic, DiagnosticReport,                 *)
(*                   DiagnosticValidator, DiagnosticLogger                  *)
(*   validator.py    TIMValidator                                          *)
(*   classifier.py   ExpectationBreakClassifier                            *)
(*                                                                         *)
(* Floats (compression_ratio, coherence_score) are counted in tenths, so   *)
(* the thresholds 0.5, 2.0, 0.6 and 0.8 are the integers 5, 20, 6 and 8.   *)
(* A text is a sequence of words separated by single spaces.               *)
(***************************************************************************)
EXTENDS Integers, Sequences, FiniteSets, TLC

VARIABLES
    pc,          \* position of the caller
    entry,       \* the entry point the caller uses
    args,        \* arguments of build_report
    flags,       \* a List[Diagnostic] handed to determine_status directly
    status,      \* value returned by determine_status
    report,      \* the DiagnosticReport the caller holds
    suggestion,  \* value returned by suggest_refinement
    document,    \* the text handed to the validator
    options,     \* the constraints argument of validate
    verdict,     \* (is_valid, violations) returned by validate
    reframe,     \* value returned by suggest_reframe
    breaks,      \* value returned by detect_breaks
    content_type, \* value returned by classify_content_type
    density,     \* value returned by calculate_surprise_density
    instances,   \* the TIMValidator and the ExpectationBreakClassifier in use
    heap,        \* the lists allocated by the calls on the shared instances
    frames,      \* the locals of each concurrent caller's call
    coercion_score,   \* value returned by calculate_coercion_score
    invitation_score  \* value returned by calculate_invitation_score

reportVars == <<args, flags, status, report, suggestion>>
validatorVars == <<document, options, verdict, reframe>>
classifierVars == <<breaks, content_type, density>>
sharedVars == <<instances, heap, frames>>
scoreVars == <<coercion_score, invitation_score>>
vars == <<pc, entry, reportVars, validatorVars, classifierVars, sharedVars, scoreVars>>

None == "None"

\* Optional values: Nothing for None, Some(x) for a value x.
Nothing == {}
Some(x) == {x}

-----------------------------------------------------------------------------
(* diagnostics.py *)

\* class Status
SUCCESS == "success"
UNSTABLE == "unstable"
FAILED == "failed"

\* class Diagnostic
UNDER_COMPRESSION == "UnderCompression"
DECOHERENCE == "Decoherence"
COERCION_DETECTED == "CoercionDetected"
EXPECTATION_BREAK == "ExpectationBreak"
COHERENCE_VERIFIED == "CoherenceVerified"
COMPRESSION_RATIO_LOW == "CompressionRatioLow"
COMPRESSION_RATIO_HIGH == "CompressionRatioHigh"
SEMANTIC_SURPRISE == "SemanticSurprise"
NARRATIVE_FLOW_BROKEN == "NarrativeFlowBroken"
BOUNDARY_INSIGHT_WEAK == "BoundaryInsightWeak"

Diagnostic ==
    { UNDER_COMPRESSION, DECOHERENCE, COERCION_DETECTED, EXPECTATION_BREAK,
      COHERENCE_VERIFIED, COMPRESSION_RATIO_LOW, COMPRESSION_RATIO_HIGH,
      SEMANTIC_SURPRISE, NARRATIVE_FLOW_BROKEN, BOUNDARY_INSIGHT_WEAK }

\* Thresholds of validate_compression_ratio and validate_coherence_score, in tenths.
RatioLow == 5
RatioHigh == 20
CoherenceLow == 6
CoherenceHigh == 8

\* Python's "x in list"
In(x, list) == \E i \in 1..Len(list) : list[i] = x

\* list.append(x) when x is not None, as "if diag: diagnostics.append(diag)"
AppendIf(list, cond, x) == IF cond THEN Append(list, x) ELSE list

determine_status_decoherence_last(diagnostics) ==
    IF In(COERCION_DETECTED, diagnostics) THEN FAILED
    ELSE IF In(COHERENCE_VERIFIED, diagnostics) THEN SUCCESS
    ELSE IF In(DECOHERENCE, diagnostics) THEN UNSTABLE
    ELSE IF Len(diagnostics) > 0 THEN UNSTABLE
    ELSE SUCCESS

determine_status_no_coercion_rule(diagnostics) ==
    IF In(DECOHERENCE, diagnostics) THEN UNSTABLE
    ELSE IF In(COHERENCE_VERIFIED, diagnostics) THEN SUCCESS
    ELSE IF In(COERCION_DETECTED, diagnostics) THEN FAILED
    ELSE IF Len(diagnostics) > 0 THEN UNSTABLE
    ELSE SUCCESS

determine_status_mixed_unstable(diagnostics) ==
    IF In(COERCION_DETECTED, diagnostics) THEN FAILED
    ELSE IF In(DECOHERENCE, diagnostics) THEN UNSTABLE
    ELSE IF Len(diagnostics) > 1 THEN UNSTABLE
    ELSE IF In(COHERENCE_VERIFIED, diagnostics) THEN SUCCESS
    ELSE IF Len(diagnostics) > 0 THEN UNSTABLE
    ELSE SUCCESS

determine_status(diagnostics) ==
    IF In(COERCION_DETECTED, diagnostics) THEN FAILED
    ELSE IF In(DECOHERENCE, diagnostics) THEN UNSTABLE
    ELSE IF In(COHERENCE_VERIFIED, diagnostics) THEN SUCCESS
    ELSE IF Len(diagnostics) > 0 THEN UNSTABLE
    ELSE SUCCESS

validate_compression_ratio(ratio) ==
    IF ratio < RatioLow THEN COMPRESSION_RATIO_LOW
    ELSE IF ratio > RatioHigh THEN COMPRESSION_RATIO_HIGH
    ELSE None

validate_coherence_score_strict(score) ==
    IF score < CoherenceLow THEN DECOHERENCE
    ELSE IF score > CoherenceHigh THEN COHERENCE_VERIFIED
    ELSE None

validate_coherence_score_lenient(score) ==
    IF score < CoherenceLow - 1 THEN DECOHERENCE
    ELSE IF score >= CoherenceHigh THEN COHERENCE_VERIFIED
    ELSE None

validate_coherence_score(score) ==
    IF score < CoherenceLow THEN DECOHERENCE
    ELSE IF score >= CoherenceHigh THEN COHERENCE_VERIFIED
    ELSE None

\* DiagnosticReport(...) with __post_init__: a metadata of None becomes {}
DiagnosticReport(st, diagnostics, ratio, score, nbreaks, coercion, metadata) ==
    [ status |-> st,
      diagnostics |-> diagnostics,
      compression_ratio |-> ratio,
      coherence_score |-> score,
      breaks_detected |-> nbreaks,
      coercion_detected |-> coercion,
      metadata |-> IF metadata = Nothing THEN Some({}) ELSE metadata ]

\* A build_report that appends ExpectationBreak once for every break detected.
build_diagnostics_per_break(a) ==
    LET ratio_diag == validate_compression_ratio(a.compression_ratio)
        coherence_diag == validate_coherence_score(a.coherence_score)
        d1 == AppendIf(<< >>, ratio_diag # None, ratio_diag)
        d2 == AppendIf(d1, coherence_diag # None, coherence_diag)
        d3 == AppendIf(d2, a.coercion_detected, COERCION_DETECTED)
        d4 == d3 \o [ i \in 1..a.breaks_detected |-> EXPECTATION_BREAK ]
        d5 == AppendIf(d4, a.semantic_surprise, SEMANTIC_SURPRISE)
    IN  d5

\* The diagnostics list build_report accumulates, in the order of its five checks.
build_diagnostics(a) ==
    LET ratio_diag == validate_compression_ratio(a.compression_ratio)
        coherence_diag == validate_coherence_score(a.coherence_score)
        d1 == AppendIf(<< >>, ratio_diag # None, ratio_diag)
        d2 == AppendIf(d1, coherence_diag # None, coherence_diag)
        d3 == AppendIf(d2, a.coercion_detected, COERCION_DETECTED)
        d4 == AppendIf(d3, a.breaks_detected > 0, EXPECTATION_BREAK)
        d5 == AppendIf(d4, a.semantic_surprise, SEMANTIC_SURPRISE)
    IN  d5

build_report(a) ==
    LET diagnostics == build_diagnostics(a)
    IN  DiagnosticReport(determine_status(diagnostics), diagnostics,
                         a.compression_ratio, a.coherence_score,
                         a.breaks_detected, a.coercion_detected,
                         IF a.metadata = Nothing \/ a.metadata = Some({})
                         THEN Some({}) ELSE a.metadata)

is_valid(r) == r.status = SUCCESS
has_issues(r) == Len(r.diagnostics) > 0
needs_refinement(r) == r.status = UNSTABLE

\* The suggestion strings of suggest_refinement, by the flag that selects them.
Refinement(d) ==
    CASE d = UNDER_COMPRESSION -> "Expand the joke further; the insight needs more unfolding."
      [] d = DECOHERENCE -> "Refocus the narrative; the core insight is getting lost."
      [] d = COERCION_DETECTED -> "Reframe as invitation, not demand. Let the reader choose."
      [] d = COMPRESSION_RATIO_LOW -> "The expansion is too minimal. Add more verses or layers."
      [] d = COMPRESSION_RATIO_HIGH -> "The expansion is too verbose. Tighten the narrative."
      [] d = BOUNDARY_INSIGHT_WEAK -> "Strengthen the boundary insight; it's the anchor of the song."

\* The flags suggest_refinement looks up, in the order of its if-chain.
RefinementTable ==
    << UNDER_COMPRESSION, DECOHERENCE, COERCION_DETECTED, COMPRESSION_RATIO_LOW,
       COMPRESSION_RATIO_HIGH, BOUNDARY_INSIGHT_WEAK >>

suggest_refinement_ratio_first(r) ==
    IF In(UNDER_COMPRESSION, r.diagnostics) THEN Refinement(UNDER_COMPRESSION)
    ELSE IF In(COMPRESSION_RATIO_LOW, r.diagnostics) THEN Refinement(COMPRESSION_RATIO_LOW)
    ELSE IF In(COMPRESSION_RATIO_HIGH, r.diagnostics) THEN Refinement(COMPRESSION_RATIO_HIGH)
    ELSE IF In(DECOHERENCE, r.diagnostics) THEN Refinement(DECOHERENCE)
    ELSE IF In(COERCION_DETECTED, r.diagnostics) THEN Refinement(COERCION_DETECTED)
    ELSE IF In(BOUNDARY_INSIGHT_WEAK, r.diagnostics) THEN Refinement(BOUNDARY_INSIGHT_WEAK)
    ELSE None

suggest_refinement(r) ==
    IF In(UNDER_COMPRESSION, r.diagnostics) THEN Refinement(UNDER_COMPRESSION)
    ELSE IF In(DECOHERENCE, r.diagnostics) THEN Refinement(DECOHERENCE)
    ELSE IF In(COERCION_DETECTED, r.diagnostics) THEN Refinement(COERCION_DETECTED)
    ELSE IF In(COMPRESSION_RATIO_LOW, r.diagnostics) THEN Refinement(COMPRESSION_RATIO_LOW)
    ELSE IF In(COMPRESSION_RATIO_HIGH, r.diagnostics) THEN Refinement(COMPRESSION_RATIO_HIGH)
    ELSE IF In(BOUNDARY_INSIGHT_WEAK, r.diagnostics) THEN Refinement(BOUNDARY_INSIGHT_WEAK)
    ELSE None

-----------------------------------------------------------------------------
(* Texts and pattern matching (module re, as validator.py and classifier.py use it) *)

\* str.lower() of a word, as re.IGNORECASE compares it.
Lower(w) ==
    CASE w = "Authority" -> "authority"
      [] OTHER -> w

\* A regex is the sequence of its alternatives in the order the regex engine
\* tries them; an alternative is a sequence of sets of words, joined by \s+.
\* The words of the model share no proper prefix or suffix with a literal of a
\* pattern, "claims" apart, so a literal matches a whole word.
MatchesAt(alt, text, i) ==
    /\ i + Len(alt) - 1 <= Len(text)
    /\ \A j \in 1..Len(alt) : Lower(text[i + j - 1]) \in alt[j]

Min(S) == CHOOSE x \in S : \A y \in S : x <= y

\* A compiled pattern: its alternatives, whether it ends in \s+ (a word must
\* follow, and the match takes the whitespace), and the words a (?!...) after
\* it rules out.
Plain(alts) == [ alts |-> alts, space |-> FALSE, unless |-> {} ]

\* The pattern matches at word i through alternative b.
PatternAt(pattern, text, i, b) ==
    /\ MatchesAt(pattern.alts[b], text, i)
    /\ pattern.space =>
          /\ i + Len(pattern.alts[b]) <= Len(text)
          /\ Lower(text[i + Len(pattern.alts[b])]) \notin pattern.unless

\* pattern.finditer(text), scanning from word `from`: the leftmost match, taken
\* by the first alternative that matches there, then the matches after it.
\* A match is the index of its first word and the number of its words.
RECURSIVE finditer(_, _, _)
finditer(pattern, text, from) ==
    LET starts == { i \in from..Len(text) :
                      \E b \in 1..Len(pattern.alts) : PatternAt(pattern, text, i, b) }
    IN  IF starts = {} THEN << >>
        ELSE LET i == Min(starts)
                 b == Min({ c \in 1..Len(pattern.alts) : PatternAt(pattern, text, i, c) })
                 n == Len(pattern.alts[b])
             IN  << [ start |-> i, words |-> n ] >> \o finditer(pattern, text, i + n)

\* match.group(): the words matched, with "" after them for a trailing \s+
Group(pattern, text, match) ==
    SubSeq(text, match.start, match.start + match.words - 1)
    \o (IF pattern.space THEN << "" >> ELSE << >>)

\* pattern.findall(text) for a pattern without groups: the matched strings
findall(alts, text, from) ==
    LET found == finditer(Plain(alts), text, from)
    IN  [ k \in 1..Len(found) |-> Group(Plain(alts), text, found[k]) ]

\* w.startswith(p), for the words of the model
StartsWith(w, p) == w = p \/ (p = "claim" /\ w = "claims")

\* w.endswith(s), for the words of the model
EndsWith(w, s) == w = s

\* Python's "needle in haystack" on strings, both given as their words.
Contains(needle, hay) ==
    LET n == Len(needle)
    IN  \E k \in 1..(Len(hay) - n + 1) :
            /\ EndsWith(hay[k], needle[1])
            /\ StartsWith(hay[k + n - 1], needle[n])
            /\ \A j \in 2..(n - 1) : hay[k + j - 1] = needle[j]

-----------------------------------------------------------------------------
(* validator.py *)

COERCION_TERMS ==
    << << << {"must"}, {"believe", "accept", "agree", "understand"} >> >>,
       << << {"you"}, {"have"}, {"to"}, {"believe", "accept", "agree"} >>,
          << {"you"}, {"to"}, {"believe", "accept", "agree"} >> >>,
       << << {"obviously", "clearly", "undeniably"} >> >>,
       << << {"no"}, {"one", "person"}, {"can", "could", "would"}, {"disagree", "argue"} >>,
          << {"no"}, {"reasonable"}, {"person"}, {"can", "could", "would"}, {"disagree", "argue"} >>,
          << {"one", "person"}, {"can", "could", "would"}, {"disagree", "argue"} >>,
          << {"reasonable"}, {"person"}, {"can", "could", "would"}, {"disagree", "argue"} >> >>,
       << << {"if"}, {"you"}, {"don't", "can't"}, {"see", "understand", "agree"} >>,
          << {"you"}, {"don't", "can't"}, {"see", "understand", "agree"} >> >>,
       << << {"only", "just", "simply"}, {"believe", "accept", "understand"} >> >>,
       << << {"everyone"}, {"knows"} >>,
          << {"it's"}, {"common"}, {"knowledge"} >> >>,
       << << {"you"}, {"must"}, {"admit", "confess", "acknowledge"} >>,
          << {"you"}, {"have"}, {"to"}, {"admit", "confess", "acknowledge"} >>,
          << {"admit", "confess", "acknowledge"} >> >> >>

EMOTIONAL_MANIPULATION_TERMS ==
    << << << {"you"}, {"should"}, {"feel", "be"}, {"ashamed", "guilty", "afraid", "scared"} >>,
          << {"you"}, {"feel", "be"}, {"ashamed", "guilty", "afraid", "scared"} >>,
          << {"should"}, {"feel", "be"}, {"ashamed", "guilty", "afraid", "scared"} >>,
          << {"feel", "be"}, {"ashamed", "guilty", "afraid", "scared"} >> >>,
       << << {"if"}, {"you"}, {"really", "truly", "genuinely"}, {"care", "love"} >>,
          << {"you"}, {"really", "truly", "genuinely"}, {"care", "love"} >> >>,
       << << {"only", "real", "true"}, {"believers", "followers", "supporters"} >> >>,
       << << {"you"}, {"can't", "won't"}, {"help"}, {"but", "except"} >>,
          << {"you"}, {"can't", "won't"}, {"but", "except"} >>,
          << {"can't", "won't"}, {"help"}, {"but", "except"} >>,
          << {"can't", "won't"}, {"but", "except"} >> >>,
       << << {"everyone"}, {"else"}, {"knows", "believes", "agrees"} >>,
          << {"everyone"}, {"around"}, {"you"}, {"knows", "believes", "agrees"} >> >> >>

PRESSURE_TERMS ==
    << << << {"act", "decide", "choose"}, {"now", "immediately", "today"} >> >>,
       << << {"limited", "only", "exclusive"}, {"time", "offer", "opportunity"} >> >>,
       << << {"don't", "can't"}, {"wait", "delay", "hesitate"} >> >>,
       << << {"before", "unless"}, {"it's"}, {"too"}, {"late"} >>,
          << {"before", "unless"}, {"too"}, {"late"} >> >>,
       << << {"hurry", "rush"} >>,
          << {"act"}, {"fast"} >> >> >>

AUTHORITY_TERMS ==
    << << << {"i", "we"}, {"know", "understand"}, {"the"}, {"truth"} >>,
          << {"i", "we"}, {"know", "understand"}, {"truth"} >>,
          << {"i", "we"}, {"have"}, {"discovered"}, {"the"}, {"truth"} >>,
          << {"i", "we"}, {"have"}, {"discovered"}, {"truth"} >> >>,
       << << {"expert", "authority", "specialist"}, {"says", "claims", "believes"} >> >>,
       << << {"scientific", "proven", "verified"}, {"fact", "truth"} >> >>,
       << << {"according"}, {"to"} >>,
          << {"research"}, {"shows"} >>,
          << {"studies"}, {"prove"} >> >> >>

\* The loop cut short after the first pattern of the family that matches.
RECURSIVE check_patterns_first_hit(_, _, _, _)
check_patterns_first_hit(patterns, label, content, k) ==
    IF k > Len(patterns) THEN << >>
    ELSE LET matches == findall(patterns[k], content, 1)
         IN  IF matches # << >> THEN << label \o matches[1] >>
             ELSE check_patterns_first_hit(patterns, label, content, k + 1)

\* The loop shared by _check_coercion, _check_emotional_manipulation,
\* _check_pressure and _check_authority_claims: for each pattern of the family
\* that matches, append f"{label}: {matches[0]}".
RECURSIVE check_patterns(_, _, _, _)
check_patterns(patterns, label, content, k) ==
    IF k > Len(patterns) THEN << >>
    ELSE LET matches == findall(patterns[k], content, 1)
         IN  (IF matches # << >> THEN << label \o matches[1] >> ELSE << >>)
             \o check_patterns(patterns, label, content, k + 1)

CoerciveLabel == << "Coercive", "language", "detected:" >>
EmotionalLabel == << "Emotional", "manipulation", "detected:" >>
PressureLabel == << "Pressure/urgency", "tactic", "detected:" >>
AuthorityLabel == << "Authority", "claim", "detected:" >>

check_coercion(content) == check_patterns(COERCION_TERMS, CoerciveLabel, content, 1)

check_emotional_manipulation(content) ==
    check_patterns(EMOTIONAL_MANIPULATION_TERMS, EmotionalLabel, content, 1)

check_pressure(content) == check_patterns(PRESSURE_TERMS, PressureLabel, content, 1)

check_authority_claims(content) ==
    check_patterns(AUTHORITY_TERMS, AuthorityLabel, content, 1)

ContradictionLabel == << "Potential", "contradiction", "detected" >>
IncompleteLabel == << "Incomplete", "thought", "at", "end", "of", "content" >>

check_coherence(content) ==
    LET contradiction ==
            \E i \in 1..Len(content) : \E j \in (i + 1)..Len(content) :
                /\ Lower(content[i]) \in {"true", "real", "correct"}
                /\ Lower(content[j]) \in {"false", "fake", "wrong"}
        incomplete ==
            /\ content # << >>
            /\ \E s \in {"but", "however", "yet", "because"} :
                   EndsWith(content[Len(content)], s)
    IN  (IF contradiction THEN << ContradictionLabel >> ELSE << >>)
        \o (IF incomplete THEN << IncompleteLabel >> ELSE << >>)

\* constraints.get(key, False)
Get_default_false(dict, key) == IF key \in DOMAIN dict THEN dict[key] ELSE FALSE

\* constraints.get(key, True), for a dict given as a function on its keys
Get(dict, key) == IF key \in DOMAIN dict THEN dict[key] ELSE TRUE

\* "if constraints is None: constraints = {"non_coercion": True}"
DefaultConstraints == [k \in {"non_coercion"} |-> TRUE]

validate(content, constraints) ==
    LET c == IF constraints = Nothing THEN DefaultConstraints
             ELSE CHOOSE d \in constraints : TRUE
        coercion == IF Get(c, "non_coercion")
                    THEN check_coercion(content)
                         \o check_emotional_manipulation(content)
                         \o check_pressure(content)
                         \o check_authority_claims(content)
                    ELSE << >>
        coherence == IF Get(c, "coherence") THEN check_coherence(content) ELSE << >>
        violations == coercion \o coherence
    IN  [ is_valid |-> Len(violations) = 0, violations |-> violations ]

CoerciveTip ==
    "Reframe as invitation: 'You might consider...' instead of 'You must...'"
EmotionalTip ==
    "Appeal to understanding, not emotion: 'This perspective shows...' instead of 'You should feel...'"
PressureTip ==
    "Remove time pressure: 'This is worth considering' instead of 'Act now'"
AuthorityTip ==
    "Share perspective humbly: 'One way to see this...' instead of 'The truth is...'"

\* The suggestions one violation adds in the loop of suggest_reframe.
tips_of(violation) ==
    (IF Contains(<< "Coercive", "language" >>, violation) THEN << CoerciveTip >> ELSE << >>)
    \o (IF Contains(<< "Emotional", "manipulation" >>, violation) THEN << EmotionalTip >> ELSE << >>)
    \o (IF Contains(<< "Pressure/urgency" >>, violation) THEN << PressureTip >> ELSE << >>)
    \o (IF Contains(<< "Authority", "claim" >>, violation) THEN << AuthorityTip >> ELSE << >>)

RECURSIVE collect_tips(_, _)
collect_tips(violations, k) ==
    IF k > Len(violations) THEN << >>
    ELSE tips_of(violations[k]) \o collect_tips(violations, k + 1)

\* suggest_reframe returns " ".join(suggestions); the joined string is kept as
\* the sequence of its tips, Nothing for None.
suggest_reframe(content) ==
    LET v == validate(content, Nothing)
        suggestions == collect_tips(v.violations, 1)
    IN  IF v.is_valid THEN Nothing
        ELSE IF suggestions # << >> THEN Some(suggestions)
        ELSE Nothing

-----------------------------------------------------------------------------
(* classifier.py *)

\* len(w), for the words of the texts handed to the classifier
WordLen(w) ==
    CASE w = "no" -> 2
      [] w = "is" -> 2
      [] w = "but" -> 3
      [] w = "paradox" -> 7
      [] w = "assumed" -> 7
      [] w = "really" -> 6
      [] w = "clearly" -> 7
      [] w = "maybe" -> 5
      [] w = "" -> 0

RECURSIVE CharLen(_)
\* len(" ".join(words))
CharLen(words) ==
    IF words = << >> THEN 0
    ELSE IF Len(words) = 1 THEN WordLen(words[1])
    ELSE WordLen(words[1]) + 1 + CharLen(Tail(words))

\* match.start(): the character offset of word i of the text
Offset(text, i) == IF i = 1 THEN 0 ELSE CharLen(SubSeq(text, 1, i - 1)) + 1

SURPRISE_MARKERS ==
    << [ alts |-> << << {"because"} >> >>, space |-> TRUE, unless |-> {"of"} ],
       Plain(<< << {"but"}, {"the", "it", "they"} >> >>),
       [ alts |-> << << {"actually"} >> >>, space |-> TRUE, unless |-> {} ],
       [ alts |-> << << {"instead"} >> >>, space |-> TRUE, unless |-> {} ],
       Plain(<< << {"paradox"} >> >>),
       Plain(<< << {"contradiction"} >> >>),
       [ alts |-> << << {"however"} >> >>, space |-> TRUE, unless |-> {} ],
       [ alts |-> << << {"yet"} >> >>, space |-> TRUE, unless |-> {} ],
       [ alts |-> << << {"though"} >> >>, space |-> TRUE, unless |-> {} ],
       [ alts |-> << << {"despite"} >> >>, space |-> TRUE, unless |-> {} ] >>

PARADOX_PATTERNS ==
    << Plain(<< << {"can", "could", "must", "should"}, {"and", "but", "yet"},
                   {"cannot", "couldn't", "mustn't", "shouldn't"} >> >>),
       Plain(<< << {"true", "real", "false", "fake"}, {"and", "but", "yet"},
                   {"false", "fake", "true", "real"} >> >>),
       Plain(<< << {"yes", "no"}, {"and", "but", "yet"}, {"no", "yes"} >> >>) >>

\* ExpectationBreak(...); confidence in hundredths; the explanation is its
\* label filled with the first `cut` characters of the words `of`.
ExpectationBreak(break_type, position, content, confidence, label, of, cut) ==
    [ break_type |-> break_type,
      position |-> position,
      content |-> content,
      confidence |-> confidence,
      explanation |-> [ label |-> label, of |-> of, cut |-> cut ] ]

\* The records of one "for match in pattern.finditer(content)" loop.
scan(pattern, content, break_type, confidence, label) ==
    LET found == finditer(pattern, content, 1)
    IN  [ k \in 1..Len(found) |->
            LET group == Group(pattern, content, found[k])
            IN  ExpectationBreak(break_type, Offset(content, found[k].start), group,
                                 confidence, label, group,
                                 CharLen(group)) ]

RECURSIVE scan_all(_, _, _, _, _, _)
\* The records of "for pattern in patterns: for match in ..."
scan_all(patterns, k, content, break_type, confidence, label) ==
    IF k > Len(patterns) THEN << >>
    ELSE scan(patterns[k], content, break_type, confidence, label)
         \o scan_all(patterns, k + 1, content, break_type, confidence, label)

\* reversal_pattern matched at word i: (\w+) (is|was) (\w+) there, and after
\* them the first (\2) (is|was) (\1); the value is the index of that \2, or 0.
ReversalAt(content, i) ==
    IF i + 2 > Len(content) \/ Lower(content[i + 1]) \notin {"is", "was"} THEN 0
    ELSE LET mirrors == { j \in (i + 3)..(Len(content) - 2) :
                            /\ Lower(content[j]) = Lower(content[i + 2])
                            /\ Lower(content[j + 1]) \in {"is", "was"}
                            /\ Lower(content[j + 2]) = Lower(content[i]) }
         IN  IF mirrors = {} THEN 0 ELSE Min(mirrors)

RECURSIVE reversal_matches(_, _)
\* reversal_pattern.finditer(content), scanning from word `from`
reversal_matches(content, from) ==
    LET starts == { i \in from..Len(content) : ReversalAt(content, i) > 0 }
    IN  IF starts = {} THEN << >>
        ELSE LET i == Min(starts)
                 j == ReversalAt(content, i)
             IN  << [ start |-> i, words |-> j + 3 - i ] >>
                 \o reversal_matches(content, j + 3)

detect_reversals(content) ==
    LET found == reversal_matches(content, 1)
    IN  [ k \in 1..Len(found) |->
            LET group == SubSeq(content, found[k].start,
                                found[k].start + found[k].words - 1)
                pair == << content[found[k].start], content[found[k].start + 2] >>
            IN  ExpectationBreak("reversal", Offset(content, found[k].start), group,
                                 85, << "Reversal:", "<->" >>, pair, CharLen(pair)) ]

\* contrast_pattern matched at word i: an "expected" word there, the first
\* "but" word after it and the first "actually" word after that; the value is
\* the index of that last word, or 0.
ContrastAt(content, i) ==
    IF Lower(content[i]) \notin {"expected", "assumed", "thought", "believed"} THEN 0
    ELSE LET buts == { j \in (i + 1)..Len(content) :
                         Lower(content[j]) \in {"but", "however", "yet", "instead"} }
         IN  IF buts = {} THEN 0
             ELSE LET ends == { k \in (Min(buts) + 1)..Len(content) :
                                  Lower(content[k]) \in {"actually", "really", "truly"} }
                  IN  IF ends = {} THEN 0 ELSE Min(ends)

RECURSIVE contrast_matches(_, _)
\* contrast_pattern.finditer(content), scanning from word `from`
contrast_matches(content, from) ==
    LET starts == { i \in from..Len(content) : ContrastAt(content, i) > 0 }
    IN  IF starts = {} THEN << >>
        ELSE LET i == Min(starts)
                 k == ContrastAt(content, i)
             IN  << [ start |-> i, words |-> k + 1 - i ] >>
                 \o contrast_matches(content, k + 1)

\* The [:50] of the contrast explanation
ContrastCut == 50

detect_contrasts(content) ==
    LET found == contrast_matches(content, 1)
    IN  [ k \in 1..Len(found) |->
            LET group == SubSeq(content, found[k].start,
                                found[k].start + found[k].words - 1)
            IN  ExpectationBreak("contrast", Offset(content, found[k].start), group,
                                 80, << "Expectation", "contrast:" >>, group,
                                 IF CharLen(group) < ContrastCut
                                 THEN CharLen(group) ELSE ContrastCut) ]

RECURSIVE sort_by_position_unstable(_)
\* A sort that puts a record ahead of the records of equal position.
sort_by_position_unstable(list) ==
    IF list = << >> THEN << >>
    ELSE LET n == Len(list)
             last == list[n]
             front == sort_by_position_unstable(SubSeq(list, 1, n - 1))
             keep == { i \in 1..Len(front) : front[i].position < last.position }
             at == IF keep = {} THEN 0 ELSE CHOOSE i \in keep : \A j \in keep : j <= i
         IN  SubSeq(front, 1, at) \o << last >> \o SubSeq(front, at + 1, Len(front))

RECURSIVE sort_by_position(_)
\* list.sort(key=lambda b: b.position): stable, so a record goes after the
\* records already placed whose position is not greater.
sort_by_position(list) ==
    IF list = << >> THEN << >>
    ELSE LET n == Len(list)
             last == list[n]
             front == sort_by_position(SubSeq(list, 1, n - 1))
             keep == { i \in 1..Len(front) : front[i].position <= last.position }
             at == IF keep = {} THEN 0 ELSE CHOOSE i \in keep : \A j \in keep : j <= i
         IN  SubSeq(front, 1, at) \o << last >> \o SubSeq(front, at + 1, Len(front))

\* The four scans of detect_breaks, concatenated in the order they run.
scan_breaks(content) ==
    scan_all(SURPRISE_MARKERS, 1, content, "surprise_marker", 70,
             << "Semantic", "surprise", "at:" >>)
    \o scan_all(PARADOX_PATTERNS, 1, content, "paradox", 90, << "Paradox", "detected:" >>)
    \o detect_reversals(content)
    \o detect_contrasts(content)

detect_breaks(content) == sort_by_position(scan_breaks(content))

\* len(content.split())
word_count(content) == Len(SelectSeq(content, LAMBDA w : w # ""))

RECURSIVE Gcd(_, _)
Gcd(a, b) == IF b = 0 THEN a ELSE Gcd(b, a % b)

\* A float as the fraction num/den in lowest terms.
Fraction(num, den) == [ num |-> num \div Gcd(num, den), den |-> den \div Gcd(num, den) ]

Zero == Fraction(0, 1)
One == Fraction(1, 1)

\* min(1.0, (break_count / word_count) * 10); the division raises on 0 words.
calculate_surprise_density(content) ==
    LET found == detect_breaks(content)
        words == word_count(content)
        break_count == Len(found)
    IN  IF found = << >> THEN Zero
        ELSE IF words = 0 THEN [ raised |-> "ZeroDivisionError" ]
        ELSE IF break_count * 10 >= words THEN One
        ELSE Fraction(break_count * 10, words)

\* The contrast test ahead of the surprise-marker count.
classify_breaks_contrast_first(found) ==
    LET break_types == [ k \in 1..Len(found) |-> found[k].break_type ]
        surprise(b) == b.break_type = "surprise_marker"
    IN  IF found = << >> THEN "straightforward"
        ELSE IF In("paradox", break_types) THEN "paradox"
        ELSE IF In("reversal", break_types) THEN "reversal"
        ELSE IF In("contrast", break_types) THEN "contrast_narrative"
        ELSE IF Len(SelectSeq(found, surprise)) > 2 THEN "joke"
        ELSE "semantic_surprise"

\* The tag classify_content_type gives to a list of breaks.
classify_breaks(found) ==
    LET break_types == [ k \in 1..Len(found) |-> found[k].break_type ]
        surprise(b) == b.break_type = "surprise_marker"
    IN  IF found = << >> THEN "straightforward"
        ELSE IF In("paradox", break_types) THEN "paradox"
        ELSE IF In("reversal", break_types) THEN "reversal"
        ELSE IF Len(SelectSeq(found, surprise)) > 2 THEN "joke"
        ELSE IF In("contrast", break_types) THEN "contrast_narrative"
        ELSE "semantic_surprise"

classify_content_type(content) == classify_breaks(detect_breaks(content))

-----------------------------------------------------------------------------
(* validator.py: the scores *)

\* The floats of the scores are kept as exact fractions; a division by zero
\* gives the exception in place of a value, and arithmetic on it passes it on.
Raised(x) == "raised" \in DOMAIN x

\* max(a, b) that returns its first argument
Max_left(a, b) == a

\* max(a, b)
Max(a, b) == IF a >= b THEN a ELSE b

\* num / den
Ratio(num, den) ==
    IF den = 0 THEN [ raised |-> "ZeroDivisionError" ] ELSE Fraction(num, den)

Times(a, b) ==
    IF Raised(a) THEN a ELSE IF Raised(b) THEN b
    ELSE Fraction(a.num * b.num, a.den * b.den)

Plus(a, b) ==
    IF Raised(a) THEN a ELSE IF Raised(b) THEN b
    ELSE Fraction(a.num * b.den + b.num * a.den, a.den * b.den)

Minus(a, b) ==
    IF Raised(a) THEN a ELSE IF Raised(b) THEN b
    ELSE Fraction(a.num * b.den - b.num * a.den, a.den * b.den)

\* min(a, b)
Least(a, b) ==
    IF Raised(a) THEN a ELSE IF Raised(b) THEN b
    ELSE IF a.num * b.den <= b.num * a.den THEN a ELSE b

Hundred == Fraction(100, 1)
Half == Fraction(1, 2)

calculate_coercion_score(content) ==
    LET v == validate(content, Nothing)
        violation_count == Len(v.violations)
        words == word_count(content)
        coercion_density == Times(Ratio(violation_count, Max(words, 1)), Hundred)
    IN  IF v.is_valid THEN Zero ELSE Least(One, coercion_density)

\* invitational_patterns of calculate_invitation_score; an optional prefix
\* is tried before the pattern without it.
INVITATIONAL_PATTERNS ==
    << << << {"you"}, {"might", "could", "may"}, {"consider", "explore", "think"} >>,
          << {"might", "could", "may"}, {"consider", "explore", "think"} >> >>,
       << << {"one"}, {"way", "perspective", "approach"} >>,
          << {"way", "perspective", "approach"} >> >>,
       << << {"perhaps", "maybe", "possibly"} >> >>,
       << << {"if"}, {"you"}, {"choose", "prefer", "decide"} >>,
          << {"if"}, {"choose", "prefer", "decide"} >>,
          << {"you"}, {"choose", "prefer", "decide"} >>,
          << {"choose", "prefer", "decide"} >> >>,
       << << {"worth", "interesting"} >>,
          << {"worth"}, {"exploring"} >> >> >>

RECURSIVE count_invitational(_, _)
\* "for pattern in invitational_patterns: invitational_count += len(re.findall(...))"
count_invitational(content, k) ==
    IF k > Len(INVITATIONAL_PATTERNS) THEN 0
    ELSE Len(findall(INVITATIONAL_PATTERNS[k], content, 1))
         + count_invitational(content, k + 1)

calculate_invitation_score(content) ==
    LET score == calculate_coercion_score(content)
        invitational_count == count_invitational(content, 1)
        words == word_count(content)
        invitational_density ==
            Times(Ratio(invitational_count, Max(words, 1)), Hundred)
        combined ==
            Times(Minus(One, score),
                  Plus(One, Least(Half, Times(invitational_density, Ratio(1, 100)))))
    IN  Least(One, combined)

-----------------------------------------------------------------------------
(* The instances and their constructors *)

\* TIMValidator.__init__: the four compiled tables (re.IGNORECASE is in MatchesAt)
TIMValidator ==
    [ coercion_patterns |-> COERCION_TERMS,
      emotional_patterns |-> EMOTIONAL_MANIPULATION_TERMS,
      pressure_patterns |-> PRESSURE_TERMS,
      authority_patterns |-> AUTHORITY_TERMS ]

\* ExpectationBreakClassifier.__init__: the two compiled tables
ExpectationBreakClassifier ==
    [ surprise_patterns |-> SURPRISE_MARKERS,
      paradox_patterns |-> PARADOX_PATTERNS ]

\* The state after construction, with no call in progress.
Constructed ==
    [ validator |-> TIMValidator, classifier |-> ExpectationBreakClassifier ]

SharedIdle == instances = Constructed /\ heap = << >> /\ frames = << >>

ScoresIdle == coercion_score = Zero /\ invitation_score = Zero

-----------------------------------------------------------------------------
(* Callers of diagnostics.py *)

MaxRatio == 22
MaxCoherence == 10
MaxBreaks == 2
MaxFlags == 3

BuildArgs ==
    [ compression_ratio : 0..MaxRatio,
      coherence_score : 0..MaxCoherence,
      breaks_detected : {-1} \cup 0..MaxBreaks,
      coercion_detected : BOOLEAN,
      semantic_surprise : BOOLEAN,
      metadata : {Nothing, Some({}), Some({"source"})} ]   \* a dict as its keys

DefaultArgs ==
    [ compression_ratio |-> 10, coherence_score |-> 7, breaks_detected |-> 0,
      coercion_detected |-> FALSE, semantic_surprise |-> FALSE, metadata |-> Nothing ]

RECURSIVE SeqsUpTo(_, _)
SeqsUpTo(S, n) ==
    IF n = 0 THEN { << >> }
    ELSE LET shorter == SeqsUpTo(S, n - 1)
         IN  shorter \cup { Append(s, x) : s \in shorter, x \in S }

NoReport == DiagnosticReport(None, << >>, 0, 0, 0, FALSE, Nothing)

NoVerdict == [ is_valid |-> TRUE, violations |-> << >> ]

ValidatorIdle ==
    document = << >> /\ options = Nothing /\ verdict = NoVerdict /\ reframe = Nothing

ClassifierIdle == breaks = << >> /\ content_type = None /\ density = Zero

InitReport ==
    /\ pc = "start"
    /\ SharedIdle
    /\ ScoresIdle
    /\ status = None
    /\ report = NoReport
    /\ suggestion = None
    /\ ValidatorIdle
    /\ ClassifierIdle
    /\ \/ entry = "build_report" /\ args \in BuildArgs /\ flags = << >>
       \/ entry = "determine_status" /\ args = DefaultArgs
                                     /\ flags \in SeqsUpTo(Diagnostic, MaxFlags)

\* report = DiagnosticValidator.build_report(**args)
BuildReport ==
    /\ pc = "start" /\ entry = "build_report"
    /\ report' = build_report(args)
    /\ status' = report'.status
    /\ pc' = "built"
    /\ UNCHANGED <<sharedVars, scoreVars, entry, args, flags, suggestion, validatorVars, classifierVars>>

\* status = DiagnosticValidator.determine_status(flags)
DetermineStatus ==
    /\ pc = "start" /\ entry = "determine_status"
    /\ status' = determine_status(flags)
    /\ pc' = "resolved"
    /\ UNCHANGED <<sharedVars, scoreVars, entry, args, flags, report, suggestion, validatorVars, classifierVars>>

\* report = DiagnosticReport(status, flags, ...): a report constructed by hand
ConstructReport ==
    /\ pc = "resolved"
    /\ report' = DiagnosticReport(status, flags, args.compression_ratio,
                                  args.coherence_score, args.breaks_detected,
                                  args.coercion_detected, args.metadata)
    /\ pc' = "built"
    /\ UNCHANGED <<sharedVars, scoreVars, entry, args, flags, status, suggestion, validatorVars, classifierVars>>

\* suggestion = DiagnosticLogger.suggest_refinement(report)
SuggestRefinement ==
    /\ pc = "built"
    /\ suggestion' = suggest_refinement(report)
    /\ pc' = "suggested"
    /\ UNCHANGED <<sharedVars, scoreVars, entry, args, flags, status, report, validatorVars, classifierVars>>

NextReport == BuildReport \/ DetermineStatus \/ ConstructReport \/ SuggestRefinement

SpecReport == InitReport /\ [][NextReport]_vars

-----------------------------------------------------------------------------
(* Callers of validator.py *)

MaxWords == 3

\* The words of the texts validated under the default options.
ValidatorWords ==
    { "clearly", "admit", "true", "believers", "hurry", "Authority", "claims",
      "false", "but", "tea" }

\* The words of the texts validated under every choice of options.
OptionWords == { "clearly", "hurry", "true", "false", "but", "tea" }

ConstraintKeys == { "non_coercion", "coherence", "strict" }

\* None, or a dict over some of the keys; the unrecognized key "strict" holds True.
ConstraintChoices ==
    { Nothing } \cup
    { Some(d) : d \in { f \in UNION { [K -> BOOLEAN] : K \in SUBSET ConstraintKeys } :
                          "strict" \in DOMAIN f => f["strict"] } }

ReportIdle ==
    /\ args = DefaultArgs /\ flags = << >> /\ status = None
    /\ report = NoReport /\ suggestion = None

InitValidator ==
    /\ pc = "start"
    /\ SharedIdle
    /\ ScoresIdle
    /\ ReportIdle
    /\ ClassifierIdle
    /\ verdict = NoVerdict
    /\ reframe = Nothing
    /\ \/ /\ entry = "validate"
          /\ document \in SeqsUpTo(OptionWords, MaxWords)
          /\ options \in ConstraintChoices
       \/ /\ entry = "suggest_reframe"
          /\ document \in SeqsUpTo(ValidatorWords, MaxWords)
          /\ options = Nothing

\* verdict = validator.validate(content, constraints)
Validate ==
    /\ pc = "start" /\ entry \in {"validate", "suggest_reframe"}
    /\ verdict' = validate(document, options)
    /\ pc' = "validated"
    /\ UNCHANGED <<sharedVars, scoreVars, entry, reportVars, classifierVars, document, options, reframe>>

\* reframe = validator.suggest_reframe(content)
SuggestReframe ==
    /\ pc = "validated" /\ entry = "suggest_reframe"
    /\ reframe' = suggest_reframe(document)
    /\ pc' = "reframed"
    /\ UNCHANGED <<sharedVars, scoreVars, entry, reportVars, classifierVars, document, options, verdict>>

NextValidator == Validate \/ SuggestReframe

SpecValidator == InitValidator /\ [][NextValidator]_vars

-----------------------------------------------------------------------------
(* Callers of classifier.py *)

MaxTokens == 6
MaxReversalTokens == 7

\* The words of the texts handed to the classifier: texts with paradoxes and
\* reversals, texts with contrasts and surprise markers, and texts with
\* reversals and surprise markers.
ReversalWords == { "no", "is", "but" }
ContrastWords == { "assumed", "but", "really", "paradox" }
MarkerWords == { "paradox", "is", "no" }

ClassifierTexts ==
    SeqsUpTo(ReversalWords, MaxReversalTokens)
    \cup SeqsUpTo(ContrastWords, MaxTokens)
    \cup SeqsUpTo(MarkerWords, MaxTokens)

InitClassifier ==
    /\ pc = "start"
    /\ SharedIdle
    /\ ScoresIdle
    /\ entry = "classify"
    /\ ReportIdle
    /\ options = Nothing /\ verdict = NoVerdict /\ reframe = Nothing
    /\ ClassifierIdle
    /\ document \in ClassifierTexts

\* breaks = classifier.detect_breaks(content)
DetectBreaks ==
    /\ pc = "start" /\ entry = "classify"
    /\ breaks' = detect_breaks(document)
    /\ pc' = "detected"
    /\ UNCHANGED <<sharedVars, scoreVars, entry, reportVars, validatorVars, content_type, density>>

\* content_type = classifier.classify_content_type(content)
ClassifyContentType ==
    /\ pc = "detected"
    /\ content_type' = classify_content_type(document)
    /\ pc' = "classified"
    /\ UNCHANGED <<sharedVars, scoreVars, entry, reportVars, validatorVars, breaks, density>>

\* density = classifier.calculate_surprise_density(content)
CalculateSurpriseDensity ==
    /\ pc = "classified"
    /\ density' = calculate_surprise_density(document)
    /\ pc' = "measured"
    /\ UNCHANGED <<sharedVars, scoreVars, entry, reportVars, validatorVars, breaks, content_type>>

NextClassifier == DetectBreaks \/ ClassifyContentType \/ CalculateSurpriseDensity

SpecClassifier == InitClassifier /\ [][NextClassifier]_vars

-----------------------------------------------------------------------------
(* Callers of the density and the scores *)

MaxScoreWords == 4
MaxPadding == 100

\* The words of the scored texts: "" stands between two spaces (or at an end
\* of the text), so a text of "" alone is whitespace-only; a surprise marker,
\* a coercive term, an invitational term, and a word that leaves a thought
\* incomplete.
ScoreWords == { "", "paradox", "clearly", "maybe", "but" }

\* A coercive term and a surprise marker followed by n invitational words:
\* texts long enough for the density and the scores to fall below their cap.
Padded(n) == << "clearly", "paradox" >> \o [ i \in 1..n |-> "maybe" ]

ScoreTexts ==
    SeqsUpTo(ScoreWords, MaxScoreWords) \cup { Padded(n) : n \in 0..MaxPadding }

InitScores ==
    /\ pc = "start"
    /\ entry = "scores"
    /\ SharedIdle
    /\ ScoresIdle
    /\ ReportIdle
    /\ options = Nothing /\ verdict = NoVerdict /\ reframe = Nothing
    /\ ClassifierIdle
    /\ document \in ScoreTexts

\* density = classifier.calculate_surprise_density(content)
SurpriseDensity ==
    /\ pc = "start" /\ entry = "scores"
    /\ density' = calculate_surprise_density(document)
    /\ pc' = "density"
    /\ UNCHANGED <<sharedVars, scoreVars, entry, reportVars, validatorVars,
                   breaks, content_type>>

\* coercion_score = validator.calculate_coercion_score(content)
CoercionScore ==
    /\ pc = "density"
    /\ coercion_score' = calculate_coercion_score(document)
    /\ pc' = "coercion"
    /\ UNCHANGED <<sharedVars, invitation_score, entry, reportVars, validatorVars,
                   classifierVars>>

\* invitation_score = validator.calculate_invitation_score(content)
InvitationScore ==
    /\ pc = "coercion"
    /\ invitation_score' = calculate_invitation_score(document)
    /\ pc' = "invitation"
    /\ UNCHANGED <<sharedVars, coercion_score, entry, reportVars, validatorVars,
                   classifierVars>>

NextScores == SurpriseDensity \/ CoercionScore \/ InvitationScore

SpecScores == InitScores /\ [][NextScores]_vars

-----------------------------------------------------------------------------
(* Concurrent callers of one TIMValidator and one ExpectationBreakClassifier *)

NumCallers == 2

\* One list object for every call: the second call is handed the first list.
allocate_shared(h) ==
    IF h = << >> THEN [ heap |-> << << >> >>, ref |-> 1 ] ELSE [ heap |-> h, ref |-> 1 ]

\* "violations = []", "breaks = []": a new list object, addressed by its index
\* in the heap.
allocate(h) == [ heap |-> Append(h, << >>), ref |-> Len(h) + 1 ]

\* The locals of a call that has not run a statement yet; ref is the address
\* of its list (0 before "= []"), value what it returns besides the list.
Frame(op, content, constraints) ==
    [ op |-> op, content |-> content, constraints |-> constraints,
      at |-> "call", ref |-> 0, value |-> Nothing ]

\* suggest_reframe runs the body of validate, classify_content_type that of
\* detect_breaks.
InValidate(f) == f.op \in {"validate", "suggest_reframe"}
InDetectBreaks(f) == f.op \in {"detect_breaks", "classify_content_type"}

\* "if constraints is None: constraints = {"non_coercion": True}"
constraints_of(f) ==
    IF f.constraints = Nothing THEN DefaultConstraints
    ELSE CHOOSE d \in f.constraints : TRUE

\* The statement of validate that follows the one the frame is at.
after_check(f) ==
    CASE f.at = "call" -> IF Get(constraints_of(f), "non_coercion")
                          THEN "coercion" ELSE "coherence"
      [] f.at = "coercion" -> "emotional"
      [] f.at = "emotional" -> "pressure"
      [] f.at = "pressure" -> "authority"
      [] f.at = "authority" -> "coherence"
      [] f.at = "coherence" -> "return"

\* What the statement of validate the frame is at extends violations with,
\* read from the tables of the instance.
validate_check(self, f) ==
    CASE f.at = "coercion" ->
            check_patterns(self.coercion_patterns, CoerciveLabel, f.content, 1)
      [] f.at = "emotional" ->
            check_patterns(self.emotional_patterns, EmotionalLabel, f.content, 1)
      [] f.at = "pressure" ->
            check_patterns(self.pressure_patterns, PressureLabel, f.content, 1)
      [] f.at = "authority" ->
            check_patterns(self.authority_patterns, AuthorityLabel, f.content, 1)
      [] f.at = "coherence" ->
            IF Get(constraints_of(f), "coherence") THEN check_coherence(f.content)
            ELSE << >>

\* The statement of detect_breaks that follows the one the frame is at.
after_scan(f) ==
    CASE f.at = "call" -> "surprise"
      [] f.at = "surprise" -> "paradox"
      [] f.at = "paradox" -> "reversals"
      [] f.at = "reversals" -> "contrasts"
      [] f.at = "contrasts" -> "sort"
      [] f.at = "sort" -> "return"

\* What the loop of detect_breaks the frame is at adds to breaks.
detect_scan(self, f) ==
    CASE f.at = "surprise" ->
            scan_all(self.surprise_patterns, 1, f.content, "surprise_marker", 70,
                     << "Semantic", "surprise", "at:" >>)
      [] f.at = "paradox" ->
            scan_all(self.paradox_patterns, 1, f.content, "paradox", 90,
                     << "Paradox", "detected:" >>)
      [] f.at = "reversals" -> detect_reversals(f.content)
      [] f.at = "contrasts" -> detect_contrasts(f.content)

\* suggest_reframe after "is_valid, violations = self.validate(content)"
reframe_of(ok, violations) ==
    LET suggestions == collect_tips(violations, 1)
    IN  IF ok THEN Nothing
        ELSE IF suggestions # << >> THEN Some(suggestions)
        ELSE Nothing

\* The texts of the calls: one with a coercive term and a pressure term, and
\* one whose surprise marker is scanned before the paradox that precedes it.
CoerciveText == << "clearly", "hurry" >>
ParadoxText == << "no", "but", "no", "paradox" >>

\* The calls the concurrent callers make.
SharedCalls ==
    { Frame("validate", CoerciveText, Some([k \in {"coherence"} |-> FALSE])),
      Frame("suggest_reframe", CoerciveText, Nothing),
      Frame("detect_breaks", ParadoxText, Nothing),
      Frame("classify_content_type", ParadoxText, Nothing) }

Callers == 1..NumCallers

InitShared ==
    /\ pc = "start"
    /\ entry = "shared"
    /\ ReportIdle
    /\ ValidatorIdle
    /\ ClassifierIdle
    /\ ScoresIdle
    /\ instances = Constructed
    /\ heap = << >>
    /\ frames \in [Callers -> SharedCalls]

idleVars == <<pc, entry, reportVars, validatorVars, classifierVars, scoreVars>>

\* violations = [] / breaks = []
Allocate(c) ==
    /\ frames[c].at = "call"
    /\ LET new == allocate(heap)
           to == IF InValidate(frames[c]) THEN after_check(frames[c])
                 ELSE after_scan(frames[c])
       IN  /\ heap' = new.heap
           /\ frames' = [frames EXCEPT ![c].ref = new.ref, ![c].at = to]
    /\ UNCHANGED <<idleVars, instances>>

\* violations.extend(self._check_...(content))
Check(c) ==
    /\ InValidate(frames[c])
    /\ frames[c].at \in {"coercion", "emotional", "pressure", "authority", "coherence"}
    /\ heap' = [heap EXCEPT ![frames[c].ref] =
                    @ \o validate_check(instances.validator, frames[c])]
    /\ frames' = [frames EXCEPT ![c].at = after_check(frames[c])]
    /\ UNCHANGED <<idleVars, instances>>

\* the two finditer loops, breaks.extend(reversals), breaks.extend(contrasts)
Scan(c) ==
    /\ InDetectBreaks(frames[c])
    /\ frames[c].at \in {"surprise", "paradox", "reversals", "contrasts"}
    /\ heap' = [heap EXCEPT ![frames[c].ref] =
                    @ \o detect_scan(instances.classifier, frames[c])]
    /\ frames' = [frames EXCEPT ![c].at = after_scan(frames[c])]
    /\ UNCHANGED <<idleVars, instances>>

\* breaks.sort(key=lambda b: b.position)
Sort(c) ==
    /\ InDetectBreaks(frames[c])
    /\ frames[c].at = "sort"
    /\ heap' = [heap EXCEPT ![frames[c].ref] = sort_by_position(@)]
    /\ frames' = [frames EXCEPT ![c].at = after_scan(frames[c])]
    /\ UNCHANGED <<idleVars, instances>>

\* "return len(violations) == 0, violations" / "return breaks": the caller
\* holds the list itself.
Return(c) ==
    /\ frames[c].at = "return"
    /\ frames' = [frames EXCEPT
                    ![c].value = IF InValidate(frames[c])
                                 THEN Some(Len(heap[frames[c].ref]) = 0) ELSE Nothing,
                    ![c].at = IF frames[c].op \in {"validate", "detect_breaks"}
                              THEN "done" ELSE "derive"]
    /\ UNCHANGED <<idleVars, instances, heap>>

\* The rest of suggest_reframe and of classify_content_type, on the value the
\* inner call returned.
Derive(c) ==
    /\ frames[c].at = "derive"
    /\ LET list == heap[frames[c].ref]
           ok == CHOOSE b \in frames[c].value : TRUE
       IN  frames' = [frames EXCEPT
                        ![c].value = IF frames[c].op = "suggest_reframe"
                                     THEN Some(reframe_of(ok, list))
                                     ELSE Some(classify_breaks(list)),
                        ![c].at = "done"]
    /\ UNCHANGED <<idleVars, instances, heap>>

NextShared ==
    \E c \in Callers :
        Allocate(c) \/ Check(c) \/ Scan(c) \/ Sort(c) \/ Return(c) \/ Derive(c)

SpecShared == InitShared /\ [][NextShared]_vars

-----------------------------------------------------------------------------
(* Properties of diagnostics.py *)

Range(seq) == { seq[i] : i \in 1..Len(seq) }

\* The caller holds a report that build_report returned for args.
Built == entry = "build_report" /\ pc \in {"built", "suggested"}

\* C1: a report of build_report has status Failed iff CoercionDetected is among
\* its diagnostics, iff the coercion_detected argument was true, whatever the
\* other arguments are.
C1_FailedIffCoercion ==
    Built =>
        /\ (report.status = FAILED) <=> (COERCION_DETECTED \in Range(report.diagnostics))
        /\ (COERCION_DETECTED \in Range(report.diagnostics)) <=> args.coercion_detected

C1_Witness ==
    /\ Built
    /\ args.coercion_detected
    /\ args.coherence_score >= CoherenceHigh
    /\ args.compression_ratio > RatioHigh
    /\ args.breaks_detected > 0
    /\ report.status = FAILED

\* The status the priority rule assigns to a set of flags.
StatusOfSet(S) ==
    CASE COERCION_DETECTED \in S -> FAILED
      [] COERCION_DETECTED \notin S /\ DECOHERENCE \in S -> UNSTABLE
      [] {COERCION_DETECTED, DECOHERENCE} \cap S = {} /\ COHERENCE_VERIFIED \in S -> SUCCESS
      [] {COERCION_DETECTED, DECOHERENCE, COHERENCE_VERIFIED} \cap S = {} /\ S # {} -> UNSTABLE
      [] S = {} -> SUCCESS

\* C2: determine_status of any list of flags is Failed with CoercionDetected,
\* else Unstable with Decoherence, else Success with CoherenceVerified, else
\* Unstable when non-empty, else Success; it is a function of the set of flags.
C2_StatusPriority ==
    (entry = "determine_status" /\ pc # "start") => status = StatusOfSet(Range(flags))

C2_Witness ==
    /\ entry = "determine_status" /\ pc = "resolved"
    /\ flags = << NARRATIVE_FLOW_BROKEN, COHERENCE_VERIFIED, NARRATIVE_FLOW_BROKEN >>
    /\ status = SUCCESS

\* The condition under which build_report is said to emit flag d for arguments a.
Emits(a, d) ==
    CASE d = COMPRESSION_RATIO_LOW -> a.compression_ratio < RatioLow
      [] d = COMPRESSION_RATIO_HIGH -> a.compression_ratio > RatioHigh
      [] d = DECOHERENCE -> a.coherence_score < CoherenceLow
      [] d = COHERENCE_VERIFIED -> a.coherence_score >= CoherenceHigh
      [] d = COERCION_DETECTED -> a.coercion_detected
      [] d = EXPECTATION_BREAK -> a.breaks_detected > 0
      [] d = SEMANTIC_SURPRISE -> a.semantic_surprise

EmissionOrder ==
    << COMPRESSION_RATIO_LOW, COMPRESSION_RATIO_HIGH, DECOHERENCE, COHERENCE_VERIFIED,
       COERCION_DETECTED, EXPECTATION_BREAK, SEMANTIC_SURPRISE >>

\* C3: the diagnostics of a report of build_report are exactly the flags whose
\* conditions hold, in the order ratio flag, coherence flag, CoercionDetected,
\* ExpectationBreak, SemanticSurprise.
C3_DiagnosticsDerivation ==
    Built =>
        LET holds(d) == Emits(args, d)
        IN  report.diagnostics = SelectSeq(EmissionOrder, holds)

C3_Witness ==
    /\ Built
    /\ args.compression_ratio = RatioLow
    /\ args.coherence_score = CoherenceHigh
    /\ args.coercion_detected /\ args.breaks_detected > 0 /\ args.semantic_surprise
    /\ report.diagnostics = << COHERENCE_VERIFIED, COERCION_DETECTED,
                               EXPECTATION_BREAK, SEMANTIC_SURPRISE >>

\* C4: without coercion and with coherence_score >= 0.8 the report is Success
\* and holds CoherenceVerified, and ExpectationBreak when breaks_detected > 0,
\* whatever the ratio, the breaks and the surprise flag are.
C4_VerifiedIsSuccess ==
    (Built /\ ~args.coercion_detected /\ args.coherence_score >= CoherenceHigh) =>
        /\ report.status = SUCCESS
        /\ COHERENCE_VERIFIED \in Range(report.diagnostics)
        /\ args.breaks_detected > 0 => EXPECTATION_BREAK \in Range(report.diagnostics)

C4_Witness ==
    /\ Built /\ ~args.coercion_detected
    /\ args.coherence_score = CoherenceHigh
    /\ args.compression_ratio < RatioLow
    /\ args.breaks_detected > 0 /\ args.semantic_surprise
    /\ report.status = SUCCESS
    /\ Len(report.diagnostics) = 4

\* C5: without coercion and with coherence_score < 0.6 the report holds
\* Decoherence and is Unstable, whatever the other arguments are.
C5_DecoherenceIsUnstable ==
    (Built /\ ~args.coercion_detected /\ args.coherence_score < CoherenceLow) =>
        /\ DECOHERENCE \in Range(report.diagnostics)
        /\ report.status = UNSTABLE

C5_Witness ==
    /\ Built /\ ~args.coercion_detected
    /\ args.coherence_score = CoherenceLow - 1
    /\ args.compression_ratio > RatioHigh /\ args.semantic_surprise
    /\ report.status = UNSTABLE
    /\ DECOHERENCE \in Range(report.diagnostics)

InTable(d) == d \in Range(RefinementTable)

\* The first element of seq, in the order of seq, that is in the set S.
FirstOf(seq, S) ==
    LET hits == { i \in 1..Len(seq) : seq[i] \in S }
    IN  seq[CHOOSE i \in hits : \A j \in hits : i <= j]

\* C6 as stated: suggest_refinement answers for the first flag, in the order of
\* the report's diagnostics, that is in the lookup table, and returns nothing
\* exactly when no flag of the report is in the table.
C6_FirstInReportOrder ==
    pc = "suggested" =>
        IF \E i \in 1..Len(report.diagnostics) : InTable(report.diagnostics[i])
        THEN suggestion = Refinement(FirstOf(report.diagnostics, Range(RefinementTable)))
        ELSE suggestion = None

\* C6 as amended: suggest_refinement answers for the first entry, in the order
\* of the lookup table, that occurs anywhere in the report's diagnostics, and
\* returns nothing exactly when no flag of the report is in the table.
C6_FirstInTableOrder ==
    pc = "suggested" =>
        IF \E i \in 1..Len(report.diagnostics) : InTable(report.diagnostics[i])
        THEN suggestion = Refinement(FirstOf(RefinementTable, Range(report.diagnostics)))
        ELSE suggestion = None

C6_Witness ==
    /\ pc = "suggested" /\ entry = "build_report"
    /\ report.diagnostics = << COMPRESSION_RATIO_LOW, DECOHERENCE, COERCION_DETECTED >>
    /\ suggestion = Refinement(DECOHERENCE)

-----------------------------------------------------------------------------
(* Properties of validator.py *)

Validated == entry \in {"validate", "suggest_reframe"} /\ pc \in {"validated", "reframed"}

\* The switch `key` is enabled by the options: True, absent, or no options at all.
Enabled(opts, key) ==
    \/ opts = Nothing
    \/ \E d \in opts : key \notin DOMAIN d \/ d[key]

FamilyLabels == << CoerciveLabel, EmotionalLabel, PressureLabel, AuthorityLabel >>
CoherenceLabels == { ContradictionLabel, IncompleteLabel }

\* The violations of `violations` that start with `label`, in order.
WithLabel(violations, label) ==
    LET isOne(v) == Len(v) >= Len(label) /\ SubSeq(v, 1, Len(label)) = label
    IN  SelectSeq(violations, isOne)

\* The rank of a violation in the order coercive, emotional, pressure,
\* authority, coherence.
FamilyRank(v) ==
    IF \E f \in 1..4 : WithLabel(<< v >>, FamilyLabels[f]) # << >>
    THEN CHOOSE f \in 1..4 : WithLabel(<< v >>, FamilyLabels[f]) # << >>
    ELSE 5

InFamilyOrder(violations) ==
    \A i, j \in 1..Len(violations) :
        i < j => FamilyRank(violations[i]) <= FamilyRank(violations[j])

\* Pattern `pattern` matches somewhere in `text`.
Occurs(pattern, text) ==
    \E i \in 1..Len(text) : \E b \in 1..Len(pattern) : MatchesAt(pattern[b], text, i)

Families == << COERCION_TERMS, EMOTIONAL_MANIPULATION_TERMS, PRESSURE_TERMS, AUTHORITY_TERMS >>

\* C7 as stated: with non_coercion enabled the violation list holds at most one
\* string of each of the four categories, in the order coercive, emotional,
\* pressure, authority.
C7_OnePerFamily ==
    (Validated /\ Enabled(options, "non_coercion")) =>
        /\ \A f \in 1..4 : Len(WithLabel(verdict.violations, FamilyLabels[f])) <= 1
        /\ InFamilyOrder(verdict.violations)

\* C7 as amended: with non_coercion enabled each scan appends one violation
\* string for every pattern of its family that matches the text (for the first
\* match of that pattern), so a category has as many strings as patterns of
\* its family that match, at most 8, 5, 5 and 4, in the order coercive,
\* emotional, pressure, authority.
C7_OnePerPattern ==
    (Validated /\ Enabled(options, "non_coercion")) =>
        /\ \A f \in 1..4 :
              LET reported == WithLabel(verdict.violations, FamilyLabels[f])
                  matching == { k \in 1..Len(Families[f]) : Occurs(Families[f][k], document) }
              IN  /\ Len(reported) = Cardinality(matching)
                  /\ Len(reported) <= Len(Families[f])
                  /\ \A r \in 1..Len(reported) :
                        \E k \in matching : \E i \in 1..Len(document) :
                          \E b \in 1..Len(Families[f][k]) :
                            /\ MatchesAt(Families[f][k][b], document, i)
                            /\ reported[r] = FamilyLabels[f]
                                  \o SubSeq(document, i, i + Len(Families[f][k][b]) - 1)
        /\ InFamilyOrder(verdict.violations)

C7_Witness ==
    /\ Validated /\ Enabled(options, "non_coercion")
    /\ document = << "hurry", "admit", "clearly" >>
    /\ Len(WithLabel(verdict.violations, CoerciveLabel)) = 2
    /\ Len(WithLabel(verdict.violations, PressureLabel)) = 1
    /\ verdict.violations[1] = CoerciveLabel \o << "clearly" >>

TipOf(f) == << CoerciveTip, EmotionalTip, PressureTip, AuthorityTip >>[f]

\* The families that have a violation in `violations`, in the order in which
\* they first occur.
RECURSIVE FamiliesDetected(_, _, _)
FamiliesDetected(violations, k, seen) ==
    IF k > Len(violations) THEN << >>
    ELSE LET f == FamilyRank(violations[k])
         IN  IF f = 5 \/ f \in seen THEN FamiliesDetected(violations, k + 1, seen)
             ELSE << f >> \o FamiliesDetected(violations, k + 1, seen \cup {f})

\* C8: for text that validate (default options) finds invalid, suggest_reframe
\* returns one tip per distinct violation category present, in the order the
\* categories were first detected, no tip twice; for valid text nothing.
C8_OneTipPerCategory ==
    (entry = "suggest_reframe" /\ pc = "reframed") =>
        IF verdict.is_valid THEN reframe = Nothing
        ELSE LET detected == FamiliesDetected(verdict.violations, 1, {})
                 tips == [ i \in 1..Len(detected) |-> TipOf(detected[i]) ]
             IN  IF tips = << >> THEN reframe \in { Nothing, Some(<< >>) }
                 ELSE reframe = Some(tips)

\* C9: validate consults only non_coercion and coherence, each enabled unless
\* set false; a disabled family reports nothing, an enabled one reports what
\* the text holds, unrecognized keys change nothing, and is_valid is true
\* exactly when the violation list is empty.
C9_SwitchesGateFamilies ==
    (entry = "validate" /\ pc = "validated") =>
        LET coercive == \E f \in 1..4 : \E k \in 1..Len(Families[f]) :
                            Occurs(Families[f][k], document)
            incoherent == check_coherence(document) # << >>
            reportedCoercive == \E i \in 1..Len(verdict.violations) :
                                    FamilyRank(verdict.violations[i]) < 5
            reportedIncoherent == \E i \in 1..Len(verdict.violations) :
                                      verdict.violations[i] \in CoherenceLabels
            recognized == IF options = Nothing THEN Nothing
                          ELSE { [ k \in DOMAIN d \ {"strict"} |-> d[k] ] : d \in options }
        IN  /\ reportedCoercive <=> (Enabled(options, "non_coercion") /\ coercive)
            /\ reportedIncoherent <=> (Enabled(options, "coherence") /\ incoherent)
            /\ verdict.is_valid <=> (verdict.violations = << >>)
            /\ verdict = validate(document, recognized)
            /\ (~Enabled(options, "non_coercion") /\ ~Enabled(options, "coherence"))
                  => verdict.is_valid

C9_Witness ==
    /\ entry = "validate" /\ pc = "validated"
    /\ options = Some([ k \in {"strict"} |-> TRUE ])
    /\ document = << "clearly", "true", "false" >>
    /\ ~verdict.is_valid
    /\ Len(verdict.violations) = 2

-----------------------------------------------------------------------------
(* Properties of classifier.py *)

\* The number of records of type t among the breaks detect_breaks returned.
CountOf(t) == Cardinality({ k \in 1..Len(breaks) : breaks[k].break_type = t })

\* C10: classify_content_type is decided by the break types detect_breaks
\* returns: paradox if any paradox, else reversal if any reversal, else joke if
\* more than two surprise markers, else contrast_narrative if any contrast,
\* else semantic_surprise if any break, else straightforward, which is exactly
\* when there is no break, and then the surprise density is 0.0.
C10_ContentTypePriority ==
    pc \in {"classified", "measured"} =>
        /\ content_type =
             CASE CountOf("paradox") > 0 -> "paradox"
               [] CountOf("paradox") = 0 /\ CountOf("reversal") > 0 -> "reversal"
               [] CountOf("paradox") = 0 /\ CountOf("reversal") = 0
                  /\ CountOf("surprise_marker") > 2 -> "joke"
               [] CountOf("paradox") = 0 /\ CountOf("reversal") = 0
                  /\ CountOf("surprise_marker") <= 2 /\ CountOf("contrast") > 0
                    -> "contrast_narrative"
               [] CountOf("paradox") = 0 /\ CountOf("reversal") = 0
                  /\ CountOf("surprise_marker") <= 2 /\ CountOf("contrast") = 0
                  /\ Len(breaks) > 0 -> "semantic_surprise"
               [] Len(breaks) = 0 -> "straightforward"
        /\ (content_type = "straightforward") <=> (breaks = << >>)
        /\ (pc = "measured" /\ breaks = << >>) => density = Zero

C10_Witness ==
    /\ pc = "measured"
    /\ CountOf("contrast") > 0
    /\ CountOf("surprise_marker") = 3
    /\ content_type = "joke"
    /\ density = One

-----------------------------------------------------------------------------
(* Properties of the shared instances *)

\* What the caller of a finished call holds, its list read where it lives.
Returned(f) ==
    CASE f.op = "validate" ->
            [ is_valid |-> CHOOSE b \in f.value : TRUE, violations |-> heap[f.ref] ]
      [] f.op = "detect_breaks" -> heap[f.ref]
      [] OTHER -> CHOOSE v \in f.value : TRUE

\* What the same call returns when nothing else runs.
Alone(f) ==
    CASE f.op = "validate" -> validate(f.content, f.constraints)
      [] f.op = "detect_breaks" -> detect_breaks(f.content)
      [] f.op = "suggest_reframe" -> suggest_reframe(f.content)
      [] f.op = "classify_content_type" -> classify_content_type(f.content)

Done(c) == frames[c].at = "done"

SameCall(c, d) ==
    /\ frames[c].op = frames[d].op
    /\ frames[c].content = frames[d].content
    /\ frames[c].constraints = frames[d].constraints

\* Every finished call holds what it returns running alone, two finished calls
\* with the same arguments hold equal results, and no two calls share a list.
ResultsAsAlone ==
    /\ \A c \in Callers : Done(c) => Returned(frames[c]) = Alone(frames[c])
    /\ \A c, d \in Callers :
          Done(c) /\ Done(d) /\ SameCall(c, d) => Returned(frames[c]) = Returned(frames[d])
    /\ \A c, d \in Callers :
          c # d /\ frames[c].ref # 0 => frames[c].ref # frames[d].ref

\* C11: with several callers interleaving their calls on one TIMValidator and
\* one ExpectationBreakClassifier, no step of validate, detect_breaks,
\* suggest_reframe or classify_content_type changes the instances (their tables
\* stay as the constructors set them), every call works on a list of its own,
\* and every finished call holds the result it gives running alone; so two
\* calls of validate with the same text and options hold identical
\* (is_valid, violations).
C11_SharedInstanceSafe ==
    /\ []ResultsAsAlone
    /\ [][instances' = instances]_vars

\* Two calls of validate with the same arguments overlapped: the second caller
\* took its list after the first and has returned two violations while the
\* first is still between its checks.
C11_Witness ==
    /\ frames # << >>
    /\ SameCall(1, 2)
    /\ frames[1].op = "validate"
    /\ frames[1].at = "pressure"
    /\ Len(heap[frames[1].ref]) = 1
    /\ frames[2].ref > frames[1].ref
    /\ Done(2)
    /\ Len(Returned(frames[2]).violations) = 2
    /\ ~Returned(frames[2]).is_valid

-----------------------------------------------------------------------------
(* Properties of detect_breaks *)

\* The place a stable ascending sort gives record k of a list: after the
\* records of smaller position and the earlier records of equal position.
StablePlace(list, k) ==
    1 + Cardinality({ m \in 1..Len(list) :
                        \/ list[m].position < list[k].position
                        \/ list[m].position = list[k].position /\ m < k })

\* The order in which detect_breaks runs its scans.
ScanRank(break_type) ==
    CASE break_type = "surprise_marker" -> 1
      [] break_type = "paradox" -> 2
      [] break_type = "reversal" -> 3
      [] break_type = "contrast" -> 4

\* C12: the list detect_breaks returns holds every record of the four scans
\* (surprise markers, paradoxes, reversals, contrasts), each exactly as often as
\* the scans produced it, in ascending order of position; records of equal
\* position stand in scan order; and the call classify_content_type makes on
\* the same text afterwards classifies an equal list.
C12_StableSortedConcatenation ==
    /\ entry = "classify" /\ pc = "detected" =>
          LET scans == scan_breaks(document)
          IN  /\ Len(breaks) = Len(scans)
              /\ \A k \in 1..Len(scans) : breaks[StablePlace(scans, k)] = scans[k]
              /\ \A i, j \in 1..Len(breaks) :
                    i < j =>
                      /\ breaks[i].position <= breaks[j].position
                      /\ breaks[i].position = breaks[j].position =>
                            ScanRank(breaks[i].break_type) <= ScanRank(breaks[j].break_type)
    /\ entry = "classify" /\ pc = "classified" =>
          content_type = classify_breaks(breaks)

\* A text whose scans come out of order: a later surprise marker is scanned
\* before a reversal that starts where the first surprise marker starts.
C12_Witness ==
    /\ entry = "classify"
    /\ pc = "classified"
    /\ breaks # scan_breaks(document)
    /\ \E i \in 1..Len(breaks) : \E j \in 1..Len(breaks) :
          /\ i < j
          /\ breaks[i].position = breaks[j].position
          /\ breaks[i].break_type = "surprise_marker"
          /\ breaks[j].break_type = "reversal"
          /\ breaks[i].content # breaks[j].content

-----------------------------------------------------------------------------
(* Properties of the density and the scores *)

\* A value, not an exception, between 0 and 1.
InUnit(x) == ~Raised(x) /\ x.den > 0 /\ 0 <= x.num /\ x.num <= x.den

Scored(at) == entry = "scores" /\ pc \in at

\* C13: for every text, the empty and the whitespace-only ones included,
\* calculate_surprise_density, calculate_coercion_score and
\* calculate_invitation_score return a value in [0, 1] and raise no
\* ZeroDivisionError: the density divides only when there is a break, and then
\* the text has a word; the scores divide by max(word_count, 1). The coercion
\* score is 0 exactly when validate finds the text valid, and otherwise is
\* min(1, violation_count / max(word_count, 1) * 100), which is positive.
C13_NoDivisionByZero ==
    /\ Scored({"density"}) =>
          /\ InUnit(density)
          /\ detect_breaks(document) # << >> => word_count(document) >= 1
    /\ Scored({"coercion"}) =>
          LET v == validate(document, Nothing)
              n == Len(v.violations)
              words == IF word_count(document) >= 1 THEN word_count(document) ELSE 1
          IN  /\ InUnit(coercion_score)
              /\ (coercion_score.num = 0) <=> v.is_valid
              /\ ~v.is_valid =>
                    /\ coercion_score.num > 0
                    /\ IF n * 100 >= words THEN coercion_score.num = coercion_score.den
                       ELSE coercion_score.num * words = coercion_score.den * n * 100
    /\ Scored({"invitation"}) =>
          /\ InUnit(density) /\ InUnit(coercion_score) /\ InUnit(invitation_score)

\* The three calls have returned for a text of one space: no word, no break,
\* no violation, and the invitation score divided by max(0, 1).
C13_Witness ==
    /\ Scored({"invitation"})
    /\ document = << "", "" >>
    /\ word_count(document) = 0
    /\ density = Zero
    /\ coercion_score = Zero
    /\ invitation_score = One

-----------------------------------------------------------------------------
(* Properties of the reports of build_report *)

\* C14: a report build_report returned lists no flag twice and at most five
\* flags; it lists Decoherence or CoherenceVerified but not both,
\* CompressionRatioLow or CompressionRatioHigh but not both, and never
\* UnderCompression, NarrativeFlowBroken or BoundaryInsightWeak; its
\* compression_ratio, coherence_score, breaks_detected and coercion_detected
\* are the arguments; and exactly one of is_valid(), needs_refinement() and
\* status == Failed holds.
C14_ReportWellFormed ==
    Built =>
        LET d == report.diagnostics
            listed == Range(d)
            verdicts == << is_valid(report), needs_refinement(report),
                           report.status = FAILED >>
        IN  /\ \A i, j \in 1..Len(d) : i # j => d[i] # d[j]
            /\ Len(d) <= 5
            /\ listed \subseteq Diagnostic
            /\ ~(DECOHERENCE \in listed /\ COHERENCE_VERIFIED \in listed)
            /\ ~(COMPRESSION_RATIO_LOW \in listed /\ COMPRESSION_RATIO_HIGH \in listed)
            /\ listed \cap { UNDER_COMPRESSION, NARRATIVE_FLOW_BROKEN,
                             BOUNDARY_INSIGHT_WEAK } = {}
            /\ report.compression_ratio = args.compression_ratio
            /\ report.coherence_score = args.coherence_score
            /\ report.breaks_detected = args.breaks_detected
            /\ report.coercion_detected = args.coercion_detected
            /\ Cardinality({ k \in 1..3 : verdicts[k] }) = 1

\* A report with the five flags build_report can list together, built for more
\* than one break.
C14_Witness ==
    /\ Built
    /\ Len(report.diagnostics) = 5
    /\ args.breaks_detected > 1
    /\ report.diagnostics[1] = COMPRESSION_RATIO_HIGH
    /\ report.diagnostics[2] = COHERENCE_VERIFIED
    /\ report.status = FAILED
    /\ ~is_valid(report) /\ ~needs_refinement(report)

====
